---------------------------- MODULE Spec2Model ----------------------------
(***************************************************************************)
(* A model of akhil-netomi/autotrain-advanced:                             *)
(*                                                                         *)
(*   trainers/clm/callbacks.py  EvaluateOnEveryPercentCallback (the        *)
(*                              percent-based evaluation gate)             *)
(*   preprocessor/text.py       the text / LLM / seq2seq preprocessors     *)
(*                                                                         *)
(* Two specifications share the module.  Spec drives the callback with     *)
(* arbitrary (global_step, max_steps, control) inputs; PrepSpec constructs *)
(* preprocessors over a pair of caller-owned dataframes and prepares them. *)
(***************************************************************************)
EXTENDS Integers, FiniteSets, Sequences

VARIABLES
    \* ---- the callback (callbacks.py) ----
    self_dict,        \* the callback instance's attributes: name -> value
    control,          \* control.should_evaluate, as the last call left it
    called,           \* TRUE once on_step_begin has been called
    curr_step,        \* state.global_step of the last call
    max_steps,        \* state.max_steps of the last call
    control_in,       \* control.should_evaluate as passed to the last call
    percent_computed, \* line 52 of the last call produced a value
    percent,          \* that value
    raised,           \* the exception the last call raised, NoErr if it returned
    requested,        \* the last call executed line 55 (evaluation requested)
    fired,            \* history: the percents for which a call requested
                      \*          evaluation
    refired,          \* history: some percent requested evaluation twice
    run_T,            \* history: max_steps of the in-order run under way
    run_n,            \* history: the calls so far were steps 0..run_n-1 of that
                      \*          run, in order (-1: they were not)
    \* ---- the preprocessors (text.py) ----
    train_data,       \* the caller's training dataframe
    valid_data,       \* the caller's validation dataframe (present or None)
    ctor,             \* the last constructor call: arguments and outcome
    pp,               \* the object that call made (none when it raised)
    prepared          \* the last prepare() of that object: the frames
                      \* before the call, and its outcome

gateVars == <<self_dict, control, called, curr_step, max_steps, control_in,
              percent_computed, percent, raised, requested, fired, refired,
              run_T, run_n>>
prepVars == <<train_data, valid_data, pp, ctor, prepared>>
vars == <<gateVars, prepVars>>

NoErr == ""

(***************************************************************************)
(* Bounds of the model.                                                    *)
(***************************************************************************)
MaxStep == 7
MaxTotal == 3
NegTotal == 1
NCols == 2
NRows == 2

(***************************************************************************)
(*                 EvaluateOnEveryPercentCallback                          *)
(***************************************************************************)

\* callbacks.py:47  `steps_done = set([0])`: a local of __init__
steps_done_local == {0}

\* callbacks.py:45-47  the instance after __init__: the set was bound to a
\* local name, so the instance carries no attribute at all
SelfDictAfterInit == [a \in {} |-> steps_done_local]

\* Python's floor division a // b for b # 0
PyFloorDiv(a, b) == IF b > 0 THEN a \div b ELSE (-a) \div (-b)

\* callbacks.py:52  percent = int(100*(curr_step//max_steps)), max_steps # 0
Percent(cs, ms) == 100 * PyFloorDiv(cs, ms)

\* A plausible slip: `control.should_evaluate = True` (line 55) placed ahead
\* of the membership test of line 53, so that every call that gets past
\* line 52 sets the flag
OnStepBeginFlagFirst(sd, ctl, cs, ms) ==
    IF ms = 0
    THEN [raised |-> "ZeroDivisionError", percent_computed |-> FALSE,
          percent |-> 0, self_dict |-> sd, control |-> ctl,
          requested |-> FALSE]
    ELSE LET p == Percent(cs, ms) IN
         IF "steps_done" \notin DOMAIN sd
         THEN [raised |-> "AttributeError", percent_computed |-> TRUE,
               percent |-> p, self_dict |-> sd, control |-> TRUE,
               requested |-> FALSE]
         ELSE IF p \notin sd["steps_done"]
              THEN [raised |-> NoErr, percent_computed |-> TRUE,
                    percent |-> p,
                    self_dict |-> [sd EXCEPT !["steps_done"] = @ \cup {p}],
                    control |-> TRUE, requested |-> TRUE]
              ELSE [raised |-> NoErr, percent_computed |-> TRUE,
                    percent |-> p, self_dict |-> sd, control |-> TRUE,
                    requested |-> FALSE]

\* callbacks.py:49-56  on_step_begin on instance attributes sd with
\* control.should_evaluate = ctl, state.global_step = cs, state.max_steps = ms
OnStepBegin(sd, ctl, cs, ms) ==
    IF ms = 0
    THEN \* line 52: integer division by zero
         [raised |-> "ZeroDivisionError", percent_computed |-> FALSE,
          percent |-> 0, self_dict |-> sd, control |-> ctl,
          requested |-> FALSE]
    ELSE LET p == Percent(cs, ms) IN
         IF "steps_done" \notin DOMAIN sd
         THEN \* line 53: self.steps_done does not exist
              [raised |-> "AttributeError", percent_computed |-> TRUE,
               percent |-> p, self_dict |-> sd, control |-> ctl,
               requested |-> FALSE]
         ELSE IF p \notin sd["steps_done"]
              THEN [raised |-> NoErr, percent_computed |-> TRUE,
                    percent |-> p,
                    self_dict |-> [sd EXCEPT !["steps_done"] = @ \cup {p}],
                    control |-> TRUE, requested |-> TRUE]
              ELSE [raised |-> NoErr, percent_computed |-> TRUE,
                    percent |-> p, self_dict |-> sd, control |-> ctl,
                    requested |-> FALSE]

GateInit ==
    /\ self_dict = SelfDictAfterInit
    /\ control = FALSE
    /\ called = FALSE
    /\ curr_step = 0
    /\ max_steps = 0
    /\ control_in = FALSE
    /\ percent_computed = FALSE
    /\ percent = 0
    /\ raised = NoErr
    /\ requested = FALSE
    /\ fired = {}
    /\ refired = FALSE
    /\ run_T = 0
    /\ run_n = 0

\* One call of on_step_begin by the training loop (or any caller that
\* survives the exception), with the inputs it passes.
StepBegin(cs, ms, ctl) ==
    LET r == OnStepBegin(self_dict, ctl, cs, ms) IN
    /\ self_dict' = r.self_dict
    /\ control' = r.control
    /\ called' = TRUE
    /\ curr_step' = cs
    /\ max_steps' = ms
    /\ control_in' = ctl
    /\ percent_computed' = r.percent_computed
    /\ percent' = r.percent
    /\ raised' = r.raised
    /\ requested' = r.requested
    /\ fired' = IF r.requested THEN fired \cup {r.percent} ELSE fired
    /\ refired' = (refired \/ (r.requested /\ r.percent \in fired))
    /\ IF run_n = 0 /\ cs = 0
       THEN run_T' = ms /\ run_n' = 1
       ELSE IF run_n >= 1 /\ ms = run_T /\ cs = run_n
            THEN run_T' = run_T /\ run_n' = run_n + 1
            ELSE run_T' = 0 /\ run_n' = -1

GateNext ==
    \E cs \in 0..MaxStep, ms \in (-NegTotal)..MaxTotal, ctl \in BOOLEAN :
        StepBegin(cs, ms, ctl)


(***************************************************************************)
(*                        preprocessor/text.py                             *)
(***************************************************************************)

\* text.py:9
RESERVED_COLUMNS == <<"autotrain_text", "autotrain_label">>

\* text.py:10-15
LLM_RESERVED_COLUMNS ==
    <<"autotrain_prompt", "autotrain_context", "autotrain_rejected_text",
      "autotrain_prompt_start">>

\* Python's None as a column argument (column labels are strings)
None == "<None>"

\* The column labels the caller's dataframes draw from: NCols ordinary
\* labels, and possibly one label that collides with a reserved name.
ColNames == <<"c1", "c2", "c3", "c4">>
UserColumns == {ColNames[i] : i \in 1..NCols}
CollidingColumns == {"autotrain_text", "autotrain_prompt"}
InputColumnSets ==
    {U \cup R : U \in SUBSET UserColumns,
                R \in {{}} \cup {{r} : r \in CollidingColumns}}
ValidColumnSets ==
    {U \cup R : U \in SUBSET UserColumns, R \in {{}, {"autotrain_text"}}}

\* Column arguments a caller passes to a constructor
ArgColumns == UserColumns

(* A dataframe: its rows (each named by the frame it came from and its     *)
(* position there) and, per column label, the data the column holds (named *)
(* by the frame and column the data was read from).                        *)
EmptyCols == [c \in {} |-> <<"", "">>]
NoneFrame == [present |-> FALSE, rows |-> {}, cols |-> EmptyCols]
MkFrame(src, n, C) ==
    [present |-> TRUE,
     rows |-> {<<src, r>> : r \in 1..n},
     cols |-> [c \in C |-> <<src, c>>]]
Columns(df) == DOMAIN df.cols

OkResult == [exc |-> NoErr, what |-> "", column |-> ""]
ValueError(what, column) == [exc |-> "ValueError", what |-> what, column |-> column]

SeqMin(S) == CHOOSE i \in S : \A j \in S : i <= j

\* text.py:45-50, 160-165, 249-254  the loop over reserved names: the first
\* name, in list order, found in train_data or (when given) in valid_data
CheckReserved(list, td, vd) ==
    LET hit == {i \in 1..Len(list) :
                   \/ list[i] \in Columns(td)
                   \/ vd.present /\ list[i] \in Columns(vd)}
    IN IF hit = {} THEN OkResult
       ELSE ValueError("is a reserved column name", list[SeqMin(hit)])

\* text.py:31-50  TextBinaryClassificationPreprocessor.__post_init__
\* (inherited by the multi-class and the regression preprocessor)
TextBinaryPostInit(td, vd, text_column, label_column) ==
    IF text_column \notin Columns(td)
    THEN ValueError("not in train data", text_column)
    ELSE IF label_column \notin Columns(td)
    THEN ValueError("not in train data", label_column)
    ELSE IF vd.present /\ text_column \notin Columns(vd)
    THEN ValueError("not in valid data", text_column)
    ELSE IF vd.present /\ label_column \notin Columns(vd)
    THEN ValueError("not in valid data", label_column)
    ELSE CheckReserved(RESERVED_COLUMNS, td, vd)

\* text.py:235-254  Seq2SeqPreprocessor.__post_init__ (the same statements)
Seq2SeqPostInit(td, vd, text_column, label_column) ==
    IF text_column \notin Columns(td)
    THEN ValueError("not in train data", text_column)
    ELSE IF label_column \notin Columns(td)
    THEN ValueError("not in train data", label_column)
    ELSE IF vd.present /\ text_column \notin Columns(vd)
    THEN ValueError("not in valid data", text_column)
    ELSE IF vd.present /\ label_column \notin Columns(vd)
    THEN ValueError("not in valid data", label_column)
    ELSE CheckReserved(RESERVED_COLUMNS, td, vd)

\* text.py:142-145  prompt_column / rejected_text_column after the aliasing
LLMPromptColumn(text_column, prompt_column) ==
    IF text_column # None THEN text_column ELSE prompt_column
LLMRejectedColumn(text_column, rejected_text_column) ==
    IF text_column # None THEN text_column ELSE rejected_text_column

\* A plausible slip in line 139: the mode test forgets rejected_text_column
LLMModeConflictPromptOnly(text_column, prompt_column, rejected_text_column) ==
    text_column # None /\ prompt_column # None

\* text.py:139  the mode test
LLMModeConflict(text_column, prompt_column, rejected_text_column) ==
    text_column # None /\ (prompt_column # None \/ rejected_text_column # None)

\* text.py:137-165  LLMPreprocessor.__post_init__
LLMPostInit(td, vd, text_column, prompt_column, rejected_text_column) ==
    IF LLMModeConflict(text_column, prompt_column, rejected_text_column)
    THEN ValueError("Please provide either text_column or prompt_column and rejected_text_column", "")
    ELSE LET pc == LLMPromptColumn(text_column, prompt_column)
             rc == LLMRejectedColumn(text_column, rejected_text_column)
         IN IF pc \notin Columns(td)
            THEN ValueError("not in train data", pc)
            ELSE IF rc \notin Columns(td)
            THEN ValueError("not in train data", rc)
            ELSE IF vd.present /\ pc \notin Columns(vd)
            THEN ValueError("not in valid data", pc)
            ELSE IF vd.present /\ rc \notin Columns(vd)
            THEN ValueError("not in valid data", rc)
            ELSE CheckReserved(RESERVED_COLUMNS \o LLM_RESERVED_COLUMNS, td, vd)

(***************************************************************************)
(* prepare(): the dataframes are Python objects, so split() may hand back  *)
(* the caller's own frames, and `df.loc[:, c] = ...` writes into whichever *)
(* object df names.  A run of prepare is a machine state m: the objects it *)
(* can reach (heap: name -> frame) and the exception raised so far.        *)
(***************************************************************************)
Machine(td, vd) ==
    [heap |-> IF vd.present
              THEN [o \in {"train_data", "valid_data"} |->
                       IF o = "train_data" THEN td ELSE vd]
              ELSE [o \in {"train_data"} |-> td],
     err |-> NoErr]

Bind(heap, o, df) ==
    [x \in DOMAIN heap \cup {o} |-> IF x = o THEN df ELSE heap[x]]

\* pandas: `df.loc[:, new] = df[src]` writes column `new` into the object
\* itself (KeyError when df has no column src)
LocAssign(m, df, new, src) ==
    IF m.err # NoErr THEN m
    ELSE IF src \notin Columns(m.heap[df]) THEN [m EXCEPT !.err = "KeyError"]
    ELSE LET f == m.heap[df]
             c2 == [c \in Columns(f) \cup {new} |->
                       IF c = new THEN f.cols[src] ELSE f.cols[c]]
         IN [m EXCEPT !.heap[df].cols = c2]

\* A plausible slip: drop(columns=labels, inplace=True), which removes the
\* columns from the object itself and leaves `out` naming that object
DropColumnsInPlace(m, df, out, labels) ==
    IF m.err # NoErr THEN m
    ELSE IF ~(labels \subseteq Columns(m.heap[df])) THEN [m EXCEPT !.err = "KeyError"]
    ELSE LET f == m.heap[df]
             g == [f EXCEPT !.cols = [c \in Columns(f) \ labels |-> f.cols[c]]]
         IN [m EXCEPT !.heap = Bind(Bind(m.heap, df, g), out, g)]

\* pandas: `out = df.drop(columns=labels)` builds a new frame without the
\* labels and leaves df as it was (KeyError when a label is no column of df)
DropColumns(m, df, out, labels) ==
    IF m.err # NoErr THEN m
    ELSE IF ~(labels \subseteq Columns(m.heap[df])) THEN [m EXCEPT !.err = "KeyError"]
    ELSE LET f == m.heap[df]
             g == [f EXCEPT !.cols = [c \in Columns(f) \ labels |-> f.cols[c]]]
         IN [m EXCEPT !.heap = Bind(m.heap, out, g)]

\* text.py:27  test_size = 0.2: sklearn takes ceil(0.2 * n) test rows
NTest(n) == (n + 4) \div 5

\* text.py:56-63, 114-120, 260-267  train_test_split + reset_index: two new
\* frames holding the rows `test` and the others; ValueError when a side is
\* empty or (stratify) the classes cannot be split
TrainTestSplit(m, test, splittable) ==
    LET f == m.heap["train_data"]
        n == Cardinality(f.rows)
    IN IF n - NTest(n) = 0 \/ ~splittable
       THEN [m EXCEPT !.err = "ValueError"]
       ELSE [m EXCEPT !.heap =
                Bind(Bind(m.heap, "split_train", [f EXCEPT !.rows = f.rows \ test]),
                     "split_valid", [f EXCEPT !.rows = test])]

\* The (train_df, valid_df) a split() returns, as names of objects of m
SplitResult(m, train_df, valid_df) ==
    [m |-> m, train_df |-> train_df, valid_df |-> valid_df]

\* text.py:52-64  TextBinaryClassificationPreprocessor.split (stratified)
TextBinarySplit(self, m, test, stratifiable) ==
    IF "valid_data" \in DOMAIN m.heap
    THEN SplitResult(m, "train_data", "valid_data")
    ELSE SplitResult(TrainTestSplit(m, test, stratifiable), "split_train", "split_valid")

\* text.py:110-121  TextSingleColumnRegressionPreprocessor.split
RegressionSplit(self, m, test) ==
    IF "valid_data" \in DOMAIN m.heap
    THEN SplitResult(m, "train_data", "valid_data")
    ELSE SplitResult(TrainTestSplit(m, test, TRUE), "split_train", "split_valid")

\* text.py:256-268  Seq2SeqPreprocessor.split (stratified)
Seq2SeqSplit(self, m, test, stratifiable) ==
    IF "valid_data" \in DOMAIN m.heap
    THEN SplitResult(m, "train_data", "valid_data")
    ELSE SplitResult(TrainTestSplit(m, test, stratifiable), "split_train", "split_valid")

\* text.py:167-171  LLMPreprocessor.split
LLMSplit(self, m) ==
    IF "valid_data" \in DOMAIN m.heap
    THEN SplitResult(m, "train_data", "valid_data")
    ELSE SplitResult(m, "train_data", "train_data")

\* text.py:66-75  TextBinaryClassificationPreprocessor.prepare_columns
TextBinaryPrepareColumns(self, m, train_df, valid_df) ==
    LET m1 == LocAssign(m, train_df, "autotrain_text", self.text_column)
        m2 == LocAssign(m1, train_df, "autotrain_label", self.label_column)
        m3 == LocAssign(m2, valid_df, "autotrain_text", self.text_column)
        m4 == LocAssign(m3, valid_df, "autotrain_label", self.label_column)
        m5 == DropColumns(m4, train_df, "out_train", {self.text_column, self.label_column})
    IN DropColumns(m5, valid_df, "out_valid", {self.text_column, self.label_column})

\* text.py:270-279  Seq2SeqPreprocessor.prepare_columns
Seq2SeqPrepareColumns(self, m, train_df, valid_df) ==
    LET m1 == LocAssign(m, train_df, "autotrain_text", self.text_column)
        m2 == LocAssign(m1, train_df, "autotrain_label", self.label_column)
        m3 == LocAssign(m2, valid_df, "autotrain_text", self.text_column)
        m4 == LocAssign(m3, valid_df, "autotrain_label", self.label_column)
        m5 == DropColumns(m4, train_df, "out_train", {self.text_column, self.label_column})
    IN DropColumns(m5, valid_df, "out_valid", {self.text_column, self.label_column})

\* text.py:188 and 198  the train side's drop
LLMDropTrain(m, df, out, labels) == DropColumns(m, df, out, labels)

\* text.py:182-201  LLMPreprocessor.prepare_columns
LLMPrepareColumns(self, m, train_df, valid_df) ==
    IF self.text_column # None
    THEN LET m1 == LocAssign(m, train_df, "autotrain_text", self.text_column)
             m2 == LocAssign(m1, valid_df, "autotrain_text", self.text_column)
             m3 == LLMDropTrain(m2, train_df, "out_train", {self.text_column})
         IN DropColumns(m3, valid_df, "out_valid", {self.text_column})
    ELSE LET m1 == LocAssign(m, train_df, "autotrain_prompt", self.prompt_column)
             m2 == LocAssign(m1, valid_df, "autotrain_prompt", self.prompt_column)
             m3 == LocAssign(m2, train_df, "autotrain_rejected_text", self.rejected_text_column)
             m4 == LocAssign(m3, valid_df, "autotrain_rejected_text", self.rejected_text_column)
             m5 == LLMDropTrain(m4, train_df, "out_train",
                                {self.prompt_column, self.rejected_text_column})
         IN DropColumns(m5, valid_df, "out_valid",
                        {self.prompt_column, self.rejected_text_column})

(***************************************************************************)
(* The rest of prepare(): the frames become Datasets and are uploaded.     *)
(* What the data and the hub decide is the call's environment `env`:       *)
(*   "ok"                   every step succeeds                            *)
(*   "unsortable_labels"    sorted(...) of line 81 raises (mixed labels)   *)
(*   "conversion_fails"     Dataset.from_pandas raises                     *)
(*   "valid_label_unknown"  cast_column of line 88 meets a label that      *)
(*                          train_df does not hold                         *)
(*   "push_train_fails", "push_valid_fails"   the upload raises            *)
(***************************************************************************)
Environments ==
    {"ok", "unsortable_labels", "conversion_fails", "valid_label_unknown",
     "push_train_fails", "push_valid_fails"}

NoLabelNames == << >>
NoDataset == [rows |-> {}, cols |-> EmptyCols, label_names |-> NoLabelNames]

\* datasets: Dataset.from_pandas(df): the rows and columns of the frame (a
\* frame with the default index; no column is cast yet)
DatasetFromPandas(df) ==
    [rows |-> df.rows, cols |-> df.cols, label_names |-> NoLabelNames]

\* text.py:81  label_names: the labels train_df holds
LabelNames(train_df) == <<train_df.cols["autotrain_label"], train_df.rows>>

\* text.py:87-88  cast_column("autotrain_label", ClassLabel(names=label_names))
CastColumn(ds, label_names) == [ds EXCEPT !.label_names = label_names]

\* How a prepare() ends: the exception, the splits uploaded, the Datasets
Finished(err, pushed, train, valid) ==
    [err |-> err, pushed |-> pushed, train |-> train, valid |-> valid]

\* text.py:90-102, 208-220, 288-300  the two push_to_hub calls and the return
PushToHub(train, valid, env) ==
    IF env = "push_train_fails" THEN Finished("HubError", {}, NoDataset, NoDataset)
    ELSE IF env = "push_valid_fails"
    THEN Finished("HubError", {"train"}, NoDataset, NoDataset)
    ELSE Finished(NoErr, {"train", "validation"}, train, valid)

\* text.py:81-102  TextBinaryClassificationPreprocessor.prepare after
\* prepare_columns
TextBinaryFinish(self, train_df, valid_df, env) ==
    IF env = "unsortable_labels"
    THEN Finished("TypeError", {}, NoDataset, NoDataset)
    ELSE IF env = "conversion_fails"
    THEN Finished("ArrowInvalid", {}, NoDataset, NoDataset)
    ELSE LET label_names == LabelNames(train_df)
             train == DatasetFromPandas(train_df)
             valid == DatasetFromPandas(valid_df)
         IN IF ~self.convert_to_class_label THEN PushToHub(train, valid, env)
            ELSE IF env = "valid_label_unknown"
            THEN Finished("ValueError", {}, NoDataset, NoDataset)
            ELSE PushToHub(CastColumn(train, label_names),
                           CastColumn(valid, label_names), env)

\* text.py:206-220  LLMPreprocessor.prepare after prepare_columns
LLMFinish(self, train_df, valid_df, env) ==
    IF env = "conversion_fails"
    THEN Finished("ArrowInvalid", {}, NoDataset, NoDataset)
    ELSE PushToHub(DatasetFromPandas(train_df), DatasetFromPandas(valid_df), env)

\* text.py:285-300  Seq2SeqPreprocessor.prepare after prepare_columns
Seq2SeqFinish(self, train_df, valid_df, env) ==
    IF env = "conversion_fails"
    THEN Finished("ArrowInvalid", {}, NoDataset, NoDataset)
    ELSE PushToHub(DatasetFromPandas(train_df), DatasetFromPandas(valid_df), env)

\* text.py:78-79  split() and prepare_columns() of the binary / multi-class
\* preprocessor, as prepare() or a caller runs them
TextBinaryPrepare(self, m, test, stratifiable) ==
    LET s == TextBinarySplit(self, m, test, stratifiable)
    IN [s EXCEPT !.m = IF s.m.err # NoErr THEN s.m
                       ELSE TextBinaryPrepareColumns(self, s.m, s.train_df, s.valid_df)]

\* text.py:109-121 with the inherited prepare_columns (78-79)
RegressionPrepare(self, m, test) ==
    LET s == RegressionSplit(self, m, test)
    IN [s EXCEPT !.m = IF s.m.err # NoErr THEN s.m
                       ELSE TextBinaryPrepareColumns(self, s.m, s.train_df, s.valid_df)]

\* text.py:204-205  LLMPreprocessor: split() and prepare_columns()
LLMPrepare(self, m) ==
    LET s == LLMSplit(self, m)
    IN [s EXCEPT !.m = IF s.m.err # NoErr THEN s.m
                       ELSE LLMPrepareColumns(self, s.m, s.train_df, s.valid_df)]

\* text.py:282-283  Seq2SeqPreprocessor: split() and prepare_columns()
Seq2SeqPrepare(self, m, test, stratifiable) ==
    LET s == Seq2SeqSplit(self, m, test, stratifiable)
    IN [s EXCEPT !.m = IF s.m.err # NoErr THEN s.m
                       ELSE Seq2SeqPrepareColumns(self, s.m, s.train_df, s.valid_df)]

(***************************************************************************)
(* State and actions of the preprocessor specification.                    *)
(***************************************************************************)
NoObject ==
    [exists |-> FALSE, kind |-> "", text_column |-> None, label_column |-> None,
     prompt_column |-> None, rejected_text_column |-> None,
     convert_to_class_label |-> FALSE]

NoCtor ==
    [called |-> FALSE, kind |-> "", text_column |-> None, label_column |-> None,
     prompt_column |-> None, rejected_text_column |-> None,
     convert_to_class_label |-> FALSE, error |-> OkResult]

(* The record of a call: op is "prepare" or, for a caller that runs split  *)
(* and prepare_columns itself, "prepare_columns"; columns_err is the       *)
(* exception of split / prepare_columns and train, valid the frames they   *)
(* returned; err is the exception the whole call raised; pushed are the    *)
(* splits uploaded, ds_train and ds_valid the Datasets prepare() returned. *)
NoPrepare ==
    [called |-> FALSE, op |-> "", columns_err |-> NoErr, err |-> NoErr,
     before_train |-> NoneFrame, before_valid |-> NoneFrame,
     train_df |-> "", valid_df |-> "",
     train |-> NoneFrame, valid |-> NoneFrame,
     pushed |-> {}, ds_train |-> NoDataset, ds_valid |-> NoDataset]

PrepInit ==
    /\ \E C \in InputColumnSets : train_data = MkFrame("train", NRows, C)
    /\ \/ valid_data = NoneFrame
       \/ \E C \in ValidColumnSets : valid_data = MkFrame("valid", 1, C)
    /\ pp = NoObject
    /\ ctor = NoCtor
    /\ prepared = NoPrepare

\* The dataclass constructor: __post_init__ raises and no object is made,
\* or the object exists with its fields (no prepare() of it yet)
Constructed(kind, text_column, label_column, prompt_column, rejected_text_column, convert, error) ==
    /\ ctor' = [called |-> TRUE, kind |-> kind, text_column |-> text_column,
                label_column |-> label_column, prompt_column |-> prompt_column,
                rejected_text_column |-> rejected_text_column,
                convert_to_class_label |-> convert, error |-> error]
    /\ pp' = IF error.exc # NoErr THEN NoObject
             ELSE [exists |-> TRUE, kind |-> kind, text_column |-> text_column,
                   label_column |-> label_column,
                   prompt_column |-> LLMPromptColumn(text_column, prompt_column),
                   rejected_text_column |->
                       LLMRejectedColumn(text_column, rejected_text_column),
                   convert_to_class_label |-> convert]
    /\ prepared' = NoPrepare
    /\ UNCHANGED <<train_data, valid_data>>
    /\ UNCHANGED gateVars

ConstructTextBinary ==
    \E kind \in {"binary", "regression"}, text_column \in ArgColumns,
       label_column \in ArgColumns, convert \in BOOLEAN :
        Constructed(kind, text_column, label_column, None, None, convert,
                    TextBinaryPostInit(train_data, valid_data, text_column, label_column))

ConstructSeq2Seq ==
    \E text_column \in ArgColumns, label_column \in ArgColumns :
        Constructed("seq2seq", text_column, label_column, None, None, FALSE,
                    Seq2SeqPostInit(train_data, valid_data, text_column, label_column))

ConstructLLM ==
    \E text_column \in ArgColumns \cup {None},
       prompt_column \in ArgColumns \cup {None},
       rejected_text_column \in ArgColumns \cup {None} :
        Constructed("llm", text_column, None, prompt_column, rejected_text_column, FALSE,
                    LLMPostInit(train_data, valid_data, text_column, prompt_column,
                                rejected_text_column))

\* split() then prepare_columns() of the object's class: `test` are the rows
\* the split draws for validation, `stratifiable` whether the labels allow it
PrepareCall(self, m, test, stratifiable) ==
    IF self.kind = "binary" THEN TextBinaryPrepare(self, m, test, stratifiable)
    ELSE IF self.kind = "regression" THEN RegressionPrepare(self, m, test)
    ELSE IF self.kind = "seq2seq" THEN Seq2SeqPrepare(self, m, test, stratifiable)
    ELSE LLMPrepare(self, m)

\* The rest of prepare() of the object's class
FinishCall(self, train_df, valid_df, env) ==
    IF self.kind \in {"binary", "regression"}
    THEN TextBinaryFinish(self, train_df, valid_df, env)
    ELSE IF self.kind = "seq2seq" THEN Seq2SeqFinish(self, train_df, valid_df, env)
    ELSE LLMFinish(self, train_df, valid_df, env)

\* A call on the object constructed last.  The caller's frames are written
\* by prepare_columns; whatever fails later in prepare() leaves them so.
Called(op, test, stratifiable, env) ==
    \E s \in {PrepareCall(pp, Machine(train_data, valid_data), test, stratifiable)} :
    \E out \in {IF s.m.err # NoErr
                THEN [train |-> NoneFrame, valid |-> NoneFrame]
                ELSE [train |-> s.m.heap["out_train"],
                      valid |-> s.m.heap["out_valid"]]} :
    \E f \in {IF s.m.err # NoErr THEN Finished(s.m.err, {}, NoDataset, NoDataset)
              ELSE IF op = "prepare" THEN FinishCall(pp, out.train, out.valid, env)
              ELSE Finished(NoErr, {}, NoDataset, NoDataset)} :
       /\ train_data' = s.m.heap["train_data"]
       /\ valid_data' = IF valid_data.present THEN s.m.heap["valid_data"]
                        ELSE valid_data
       /\ prepared' = [called |-> TRUE, op |-> op,
                       columns_err |-> s.m.err, err |-> f.err,
                       before_train |-> train_data, before_valid |-> valid_data,
                       train_df |-> s.train_df, valid_df |-> s.valid_df,
                       train |-> out.train, valid |-> out.valid,
                       pushed |-> f.pushed, ds_train |-> f.train,
                       ds_valid |-> f.valid]
       /\ UNCHANGED <<pp, ctor>>
       /\ UNCHANGED gateVars

\* What split() reads of the data: nothing when it hands back the caller's
\* frames; otherwise the rows drawn for validation (ceil(0.2 n) of them)
\* and, when it stratifies, whether the labels allow the split
SplitInputs ==
    IF valid_data.present \/ pp.kind = "llm" THEN {<<{}, TRUE>>}
    ELSE {T \in SUBSET train_data.rows :
             Cardinality(T) = NTest(Cardinality(train_data.rows))}
         \X (IF pp.kind = "regression" THEN {TRUE} ELSE BOOLEAN)

\* The environments that the object's prepare() can tell apart
EnvironmentsOf(self) ==
    IF self.kind \in {"binary", "regression"}
    THEN IF self.convert_to_class_label THEN Environments
         ELSE Environments \ {"valid_label_unknown"}
    ELSE Environments \ {"unsortable_labels", "valid_label_unknown"}

\* prepare()
Prepare ==
    /\ pp.exists
    /\ \E in \in SplitInputs, env \in EnvironmentsOf(pp) :
        Called("prepare", in[1], in[2], env)

\* A caller running the public split() and prepare_columns() itself
SplitPrepareColumns ==
    /\ pp.exists
    /\ \E in \in SplitInputs : Called("prepare_columns", in[1], in[2], "ok")

PrepNext ==
    \/ ConstructTextBinary \/ ConstructSeq2Seq \/ ConstructLLM
    \/ Prepare \/ SplitPrepareColumns

PrepSpecInit == GateInit /\ PrepInit

PrepSpec == PrepSpecInit /\ [][PrepNext]_vars

(***************************************************************************)
(* The callback specification: the preprocessor state stays idle.          *)
(***************************************************************************)
PrepIdle ==
    /\ train_data = MkFrame("train", 1, {})
    /\ valid_data = NoneFrame
    /\ pp = NoObject
    /\ ctor = NoCtor
    /\ prepared = NoPrepare

Init == GateInit /\ PrepIdle

Next == GateNext /\ UNCHANGED prepVars

Spec == Init /\ [][Next]_vars

(***************************************************************************)
(*                  Properties of the callback (Spec)                      *)
(***************************************************************************)
HasMilestones == "steps_done" \in DOMAIN self_dict

\* The percent the specification prescribes: floor(100*step/total) in [0,100]
ClampedPercent(cs, ms) ==
    LET q == (100 * cs) \div ms
    IN IF q > 100 THEN 100 ELSE IF q < 0 THEN 0 ELSE q

\* Step k of an in-order run of T steps is the first to produce its percent
FirstAppearance(k, T) ==
    \A j \in 0..(k - 1) : (100 * j) \div T # (100 * k) \div T

\* C1: over any sequence of calls on one gate with total_steps > 0 and
\* current_step in [0, total_steps], no percent requests evaluation twice,
\* and every call returns its decision (a call whose percent is already
\* recorded returns false rather than failing).
C1_AtMostOncePerPercent ==
    /\ ~refired
    /\ (called /\ max_steps > 0 /\ curr_step \in 0..max_steps) => raised = NoErr

\* C2: construction leaves the milestone set {0} as state of the instance,
\* and the first call should_evaluate(0, T), T > 0, on a fresh gate returns
\* false without an error.
C2_SeededAtConstruction ==
    /\ ~called => (HasMilestones /\ self_dict["steps_done"] = {0})
    /\ (run_n = 1 /\ max_steps > 0) => (raised = NoErr /\ ~requested)

\* C3: a fresh gate called with current_step = 0, 1, ..., T in order returns
\* true exactly at the steps whose floor(100*step/T) no earlier step
\* produced (T = 3: false, true, true, true).
C3_InOrderRunResults ==
    (run_n >= 1 /\ run_T > 0 /\ curr_step <= run_T) =>
        /\ raised = NoErr
        /\ requested <=> (curr_step >= 1 /\ FirstAppearance(curr_step, run_T))

\* C4: for current_step >= 0 and total_steps > 0 the percent the gate tests
\* is floor(100 * current_step / total_steps) clamped to [0, 100].
C4_PercentIsClampedFloor ==
    (called /\ max_steps > 0) =>
        (percent_computed /\ percent = ClampedPercent(curr_step, max_steps))

\* C5: a call with total_steps <= 0 is rejected with an error before any
\* percent is computed; no decision is produced and the milestone set and
\* the evaluation flag are left as they were.
C5_RejectsNonPositiveTotal ==
    (called /\ max_steps <= 0) =>
        /\ raised # NoErr
        /\ ~percent_computed
        /\ ~requested
        /\ self_dict = SelfDictAfterInit
        /\ control = control_in

\* C6: in every reachable state the milestone set exists, contains 0, holds
\* only integers of 0..100 and has at most 101 entries.
C6_MilestoneSetBounded ==
    /\ HasMilestones
    /\ 0 \in self_dict["steps_done"]
    /\ self_dict["steps_done"] \subseteq 0..100
    /\ Cardinality(self_dict["steps_done"]) <= 101

AllReserved ==
    {RESERVED_COLUMNS[i] : i \in 1..Len(RESERVED_COLUMNS)}
        \cup {LLM_RESERVED_COLUMNS[i] : i \in 1..Len(LLM_RESERVED_COLUMNS)}

FrameColumns == Columns(train_data) \cup Columns(valid_data)

\* C8: an LLMPreprocessor is constructed only with text_column alone or
\* with prompt_column and rejected_text_column and no text_column, every
\* selected column in train_data (and valid_data when given) and no
\* reserved name in either frame; anything else raises ValueError: the mode
\* conflict first, then a missing column, then a reserved name.
C8_LLMConstruction ==
    (ctor.called /\ ctor.kind = "llm" /\ ~prepared.called) =>
        LET t == ctor.text_column
            p == ctor.prompt_column
            r == ctor.rejected_text_column
            textMode == t # None /\ p = None /\ r = None
            pairMode == t = None /\ p # None /\ r # None
            conflict == t # None /\ ~textMode
            selected == IF t # None THEN {t} ELSE {p, r}
            found == /\ selected \subseteq Columns(train_data)
                     /\ valid_data.present => selected \subseteq Columns(valid_data)
            clean == AllReserved \cap FrameColumns = {}
        IN /\ pp.exists <=> ((textMode \/ pairMode) /\ found /\ clean)
           /\ pp.exists <=> ctor.error.exc = NoErr
           /\ ~pp.exists => ctor.error.exc = "ValueError"
           /\ conflict =>
                ctor.error.what = "Please provide either text_column or prompt_column and rejected_text_column"
           /\ (~conflict /\ ~found) =>
                ctor.error.what \in {"not in train data", "not in valid data"}
           /\ (~conflict /\ found /\ ~clean) =>
                ctor.error.what = "is a reserved column name"

C8_Witness ==
    /\ ctor.called /\ ctor.kind = "llm" /\ ~prepared.called
    /\ pp.exists
    /\ ctor.text_column = None
    /\ ctor.prompt_column # ctor.rejected_text_column
    /\ valid_data.present

\* C9: prepare() leaves the caller's train_data and valid_data with the
\* columns they had before the call.
C9_CallerFramesKeepColumns ==
    prepared.called =>
        /\ Columns(train_data) = Columns(prepared.before_train)
        /\ Columns(valid_data) = Columns(prepared.before_valid)

\* C10: for an LLMPreprocessor without valid_data, split() returns
\* train_data as both frames, and prepare_columns (run by prepare() or by
\* the caller, whatever the later upload does) succeeds with two equal
\* frames: the rows of train_data, its columns other than the source
\* columns, and the reserved output columns holding the source data.
C10_LLMSharedFrame ==
    (prepared.called /\ pp.kind = "llm" /\ ~valid_data.present) =>
        LET before == prepared.before_train
            textMode == pp.text_column # None
            src == IF textMode THEN {pp.text_column}
                   ELSE {pp.prompt_column, pp.rejected_text_column}
            outs == IF textMode THEN {"autotrain_text"}
                    ELSE {"autotrain_prompt", "autotrain_rejected_text"}
        IN /\ prepared.train_df = "train_data" /\ prepared.valid_df = "train_data"
           /\ prepared.columns_err = NoErr
           /\ prepared.train = prepared.valid
           /\ prepared.train.rows = before.rows
           /\ Columns(prepared.train) = (Columns(before) \ src) \cup outs
           /\ \A c \in Columns(before) \ (src \cup outs) :
                  prepared.train.cols[c] = before.cols[c]
           /\ IF textMode
              THEN prepared.train.cols["autotrain_text"] = before.cols[pp.text_column]
              ELSE /\ prepared.train.cols["autotrain_prompt"] =
                          before.cols[pp.prompt_column]
                   /\ prepared.train.cols["autotrain_rejected_text"] =
                          before.cols[pp.rejected_text_column]

C10_Witness ==
    /\ prepared.called /\ pp.kind = "llm" /\ ~valid_data.present
    /\ prepared.op = "prepare" /\ prepared.err = NoErr
    /\ prepared.pushed = {"train", "validation"}
    /\ pp.text_column # None
    /\ Cardinality(Columns(prepared.train)) >= 2
    /\ prepared.train = prepared.valid

=============================================================================
